---- MODULE Spec2Model ----
(***************************************************************************)
(* Model of the Bullwhip-effect game engine (src/game-engine.js).          *)
(*                                                                         *)
(* One GameEngine object: five supply chain entities, mutated only by      *)
(* processPlayerOrder, which advances the player's entity and then, through*)
(* processAIEntities, the other four.                                      *)
(*                                                                         *)
(* Numbers.  Quantities are JavaScript numbers holding integers.  Costs    *)
(* are multiples of 0.5 (unfulfilled * 1.0, inventory * 0.5), which doubles*)
(* add exactly; they are kept here in HALF UNITS: a cost c of the program  *)
(* is the integer 2*c of the model (3.5 is 7).                             *)
(*                                                                         *)
(* Math.random().  The engine reads the ambient generator of the runtime.  *)
(* It is modelled as a seeded stream: a generator state `rng`, advanced by *)
(* NextRand at every call; the value returned is rng / RandModulus, a      *)
(* rational in [0, 1).  The seed is chosen nondeterministically in Init.   *)
(* All arithmetic on draws is done exactly, on numerators.                 *)
(***************************************************************************)
EXTENDS Integers, Sequences, FiniteSets, TLC

VARIABLES
    entities,     \* this.entities: role id -> entity record
    rng,          \* state of the Math.random() stream
    roundLog,     \* history: the round argument of every completed call
    lastCall,     \* history: arguments (and pre-state facts) of the last call
    lastResult,   \* history: what the last call returned or threw
    stepLog,      \* history: per role, the quantities of its latest step
    shipTags,     \* history: per role, for every entry of incomingShipments,
                  \*          the ordinal of the call that pushed it
    updateOrder,  \* history: the roles in the order the last call updated them
    lastRead,     \* history: the latest read-only call since the last round
    probe,        \* a call of a pure function: its arguments and its result
    controller,   \* the AnimationController: animationQueue, activeAnimations
    addedLog      \* history: every animation handed to addAnimation

gameVars == <<entities, rng, roundLog, lastCall, lastResult, stepLog, shipTags,
              updateOrder>>

animVars == <<controller, addedLog>>

vars == <<entities, rng, roundLog, lastCall, lastResult, stepLog, shipTags,
          updateOrder, lastRead, probe, controller, addedLog>>

----------------------------------------------------------------------------
\* Bounds of the model

\* processPlayerOrder is called at most MaxCalls times
MaxCalls == 3

\* the largest order quantity the player submits
MaxQuantity == 13

\* resolution of Math.random(): draws are k / RandModulus, k in 0..RandModulus-1
RandModulus == 16

\* the largest seed of the random stream
MaxSeed == 1

\* seeds of the random stream: the generator states a fresh engine may meet
Seeds == 0..MaxSeed

----------------------------------------------------------------------------
\* Program constants

InitialInventory == 12

FirstRound == 1

LastRound == 20

\* roleOrder of processAIEntities: downstream (retailer) first
roleOrder == <<"retailer", "distributor", "wholesaler", "manufacturer", "supplier">>

RoleIds == {roleOrder[i] : i \in 1..Len(roleOrder)}

\* a role id that is no key of this.entities
UnknownRoleIds == {"customer"}

\* the value of a failed lookup this.entities[roleId]
Undefined == "undefined"

Quantities == {0, MaxQuantity}

\* a round argument that is not the next in sequence after n completed
\* calls: a round past the end of the game, a mid-game round, a late round
OffSequence(n) ==
    CASE n % 3 = 0 -> LastRound + 1
      [] n % 3 = 1 -> 6
      [] OTHER     -> 12

\* round arguments offered after n completed calls
RoundArgs(n) == {n + 1, OffSequence(n)}

----------------------------------------------------------------------------
\* Small helpers

Min(a, b) == IF a <= b THEN a ELSE b

Max(a, b) == IF a >= b THEN a ELSE b

RECURSIVE SumSeq(_)
SumSeq(s) == IF s = <<>> THEN 0 ELSE Head(s) + SumSeq(Tail(s))

\* roleOrder.indexOf(roleId), 1-based
IndexOf(roleId) == CHOOSE i \in 1..Len(roleOrder) : roleOrder[i] = roleId

\* queue.shift() || 0 : the value
ShiftOrZero(q) == IF q = <<>> THEN 0 ELSE Head(q)

\* mutant: the entry read is left in the queue
ShiftedKeeping(q) == q

\* queue.shift() : what is left of the queue
Shifted(q) == IF q = <<>> THEN <<>> ELSE Tail(q)

\* array.slice(-n)
SliceLast(s, n) == IF Len(s) <= n THEN s ELSE SubSeq(s, Len(s) - n + 1, Len(s))

\* the element of a one-element set.  Intermediate results are bound as
\* elements of singleton sets ({F(v) : v \in {e}}) so that each is computed once.
TheOne(S) == CHOOSE v \in S : TRUE

\* Math.round(num / den) for den > 0: floor(x + 0.5)
RoundDiv(num, den) == (2 * num + den) \div (2 * den)

\* Math.ceil(num / den) for den > 0
CeilDiv(num, den) == -((-num) \div den)

----------------------------------------------------------------------------
\* Math.random()

NextRand(s) == (5 * s + 3) % RandModulus

----------------------------------------------------------------------------
\* generateDemandTrend / getCustomerDemand

\* this.demandTrend[round - 1]; volatility in hundredths
DemandPhase(round) ==
    LET i == round - 1 IN
    IF i < 5 THEN [min |-> 4, max |-> 6, volatility |-> 10]
    ELSE IF i < 9 THEN [min |-> 5 + (i - 5), max |-> 7 + (i - 5), volatility |-> 15]
    ELSE IF i < 12 THEN [min |-> 8, max |-> 12, volatility |-> 20]
    ELSE IF i < 15 THEN [min |-> 6 - (i - 12), max |-> 8 - (i - 12), volatility |-> 15]
    ELSE IF i < 18 THEN [min |-> 4, max |-> 6, volatility |-> 10]
    ELSE [min |-> 7, max |-> 10, volatility |-> 20]

\* getCustomerDemand(round) from generator state s: the demand and the
\* generator state afterwards.  Two draws when the round is in range.
GetCustomerDemand(round, s) ==
    IF round < FirstRound \/ round > LastRound
    THEN [demand |-> 0, rng |-> s]
    ELSE LET phase == DemandPhase(round)
             r1    == NextRand(s)
             r2    == NextRand(r1)
             base  == ((r1 * (phase.max - phase.min + 1)) \div RandModulus) + phase.min
             \* base + noise = num / den, noise = (r2/M - 1/2) * 2 * vol * base
             den   == 100 * RandModulus
             num   == den * base + (2 * r2 - RandModulus) * phase.volatility * base
         IN  [demand |-> Max(0, RoundDiv(num, den)), rng |-> r2]

----------------------------------------------------------------------------
\* getAIStrategy / calculateAIOrder

\* mutant: the early game lasts through round 5
GetAIStrategyLateMidGame(roleId, round) ==
    IF round <= 5 THEN "conservative"
    ELSE IF round < 12
         THEN CASE roleId = "retailer"     -> "reactive"
                [] roleId = "distributor"  -> "balanced"
                [] roleId = "wholesaler"   -> "balanced"
                [] roleId = "manufacturer" -> "conservative"
                [] roleId = "supplier"     -> "aggressive"
                [] OTHER                   -> "balanced"
         ELSE "reactive"

\* getAIStrategy(roleId, round)
GetAIStrategy(roleId, round) ==
    IF round < 5 THEN "conservative"
    ELSE IF round < 12
         THEN CASE roleId = "retailer"     -> "reactive"
                [] roleId = "distributor"  -> "balanced"
                [] roleId = "wholesaler"   -> "balanced"
                [] roleId = "manufacturer" -> "conservative"
                [] roleId = "supplier"     -> "aggressive"
                [] OTHER                   -> "balanced"
         ELSE "reactive"

\* Math.floor(q * 0.7).  The double nearest 0.7 lies below 0.7, and for the
\* listed q (all such q below 400) the product q * 0.7 is a double just
\* below the integer 7q/10, so the floor is one less than the exact value.
FloorSevenTenths(q) ==
    LET exact == (7 * q) \div 10 IN
    IF q \in {90, 170, 180, 330, 340, 350, 360} THEN exact - 1 ELSE exact

\* the quantity of the strategy's switch, before noise and adjustment
StrategyQuantity(entity, strategy, currentOrder) ==
    LET recentOrders == SliceLast(entity.orderHistory, 3)
        n            == Len(recentOrders)
        \* avgRecentOrder = avgNum / avgDen
        avgNum       == IF n > 0 THEN SumSeq(recentOrders) ELSE currentOrder
        avgDen       == IF n > 0 THEN n ELSE 1
        trend        == IF n >= 2 THEN recentOrders[n] - recentOrders[1] ELSE 0
    IN  CASE strategy = "conservative" -> currentOrder
          [] strategy = "balanced"     -> RoundDiv(12 * currentOrder, 10)
          [] strategy = "aggressive"   ->
                 RoundDiv(3 * currentOrder, 2) + (IF entity.inventory < 5 THEN 5 ELSE 0)
          [] strategy = "reactive"     ->
                 RoundDiv(2 * avgNum + 3 * avgDen * trend, 2 * avgDen)
          [] OTHER                     -> currentOrder

\* Math.floor((Math.random() - 0.5) * 2 * 2) for the draw r / RandModulus
OrderNoise(r) == (4 * r - 2 * RandModulus) \div RandModulus

\* "Consider inventory position"
InventoryAdjusted(orderQuantity, inventory) ==
    IF inventory > 20 THEN FloorSevenTenths(orderQuantity)
    ELSE IF inventory < 3 THEN CeilDiv(13 * orderQuantity, 10)
    ELSE orderQuantity

\* calculateAIOrder(entity, strategy, currentOrder, round) from generator
\* state s: the order and the generator state afterwards.  One draw.
CalculateAIOrder(entity, strategy, currentOrder, s) ==
    LET r        == NextRand(s)
        quantity == StrategyQuantity(entity, strategy, currentOrder)
        noisy    == Max(0, quantity + OrderNoise(r))
    IN  [order |-> InventoryAdjusted(noisy, entity.inventory), rng |-> r]

----------------------------------------------------------------------------
\* The per-entity arithmetic shared by both paths of the engine

\* mutant: the order is shipped whole, whatever is in stock
FulfilledUncapped(order, inventory) == order

\* mutant: Math.max in place of Math.min
FulfilledMax(order, inventory) == Max(order, inventory)

\* Math.min(incomingOrder, entity.inventory)
Fulfilled(order, inventory) == Min(order, inventory)

\* mutant: the difference taken the wrong way round
UnfulfilledReversed(order, fulfilled) == fulfilled - order

\* incomingOrder - fulfilled
Unfulfilled(order, fulfilled) == order - fulfilled

\* entity.incomingShipments.length >= 2
ShipmentDue(incomingShipments) == Len(incomingShipments) >= 2

\* mutant: a stockout is charged like a held unit
StockoutCostHalved(unfulfilled) == unfulfilled

\* unfulfilled * 1.0, in half units
StockoutCost(unfulfilled) == 2 * unfulfilled

\* entity.inventory * 0.5, in half units
HoldingCost(inventory) == inventory

\* mutant: a failed lookup falls back to the first entity
LookupRoleDefaulting(roleId) == IF roleId \in RoleIds THEN roleId ELSE roleOrder[1]

\* this.entities[roleId]: the key the lookup finds, or Undefined
LookupRole(roleId) == IF roleId \in RoleIds THEN roleId ELSE Undefined

\* mutant: the player's role is not skipped
NeverSkipped(roleId, playerRoleId) == FALSE

\* "if (roleId === playerRoleId) return; // Skip player's role"
IsSkipped(roleId, playerRoleId) == roleId = playerRoleId

----------------------------------------------------------------------------
\* The constructor

NewEntity ==
    [ inventory         |-> InitialInventory,
      incomingOrders    |-> <<>>,
      outgoingOrders    |-> <<>>,
      incomingShipments |-> <<>>,
      outgoingShipments |-> <<>>,
      orderHistory      |-> <<>>,
      inventoryHistory  |-> <<InitialInventory>>,
      stockoutCosts     |-> 0,
      holdingCosts      |-> 0,
      unfulfilledDemand |-> 0 ]

\* history entry of a role that has not been stepped yet
NoStep ==
    [ ordinal |-> 0, external |-> FALSE, order |-> 0, invBefore |-> InitialInventory,
      udBefore |-> 0, fulfilled |-> 0, unfulfilled |-> 0, received |-> FALSE,
      shipment |-> 0, sentAt |-> 0, placed |-> 0 ]

\* no read-only call has been made since the last round
NoRead == [op |-> "none", reads |-> 0]

\* no pure function has been called
NoProbe == [op |-> "none"]

\* new AnimationController(): both lists empty
NewController == [animationQueue |-> <<>>, activeAnimations |-> <<>>]

\* the engine, and the animation controller, after construction
NewGame ==
    /\ entities   = [r \in RoleIds |-> NewEntity]
    /\ rng        \in Seeds
    /\ roundLog   = <<>>
    /\ lastCall   = [role |-> "none", quantity |-> 0, round |-> 0, rng |-> rng]
    /\ lastResult = [threw |-> "nocall"]
    /\ stepLog    = [r \in RoleIds |-> NoStep]
    /\ shipTags   = [r \in RoleIds |-> <<>>]
    /\ updateOrder = <<>>
    /\ lastRead   = NoRead
    /\ controller = NewController
    /\ addedLog   = <<>>

Init ==
    /\ NewGame
    /\ probe = NoProbe

----------------------------------------------------------------------------
\* One round.  The steps below work on a record w of the values a round
\* changes: w.e (entities), w.rng, w.log (stepLog), w.tags (shipTags), and
\* w.seq, the roles updated so far in this call, in order.

\* processPlayerOrder, lines 103-131: the player's own entity
PlayerEntityStep(w, roleId, quantity, ordinal) ==
    LET entity        == w.e[roleId]
        incomingOrder == ShiftOrZero(entity.incomingOrders)
        fulfilled     == Fulfilled(incomingOrder, entity.inventory)
        unfulfilled   == Unfulfilled(incomingOrder, fulfilled)
        due           == ShipmentDue(entity.incomingShipments)
        shipment      == IF due THEN Head(entity.incomingShipments) ELSE 0
        inventory     == (entity.inventory - fulfilled) + shipment
        stepped       ==
            [ entity EXCEPT
                !.incomingOrders    = Shifted(@),
                !.inventory         = inventory,
                !.unfulfilledDemand = @ + unfulfilled,
                !.incomingShipments = IF due THEN Tail(@) ELSE @,
                !.outgoingOrders    = Append(@, quantity),
                !.orderHistory      = Append(@, incomingOrder),
                !.stockoutCosts     = @ + StockoutCost(unfulfilled),
                !.holdingCosts      = @ + HoldingCost(inventory),
                !.inventoryHistory  = Append(@, inventory) ]
        entry         ==
            [ ordinal |-> ordinal, external |-> TRUE, order |-> incomingOrder,
              invBefore |-> entity.inventory, udBefore |-> entity.unfulfilledDemand,
              fulfilled |-> fulfilled, unfulfilled |-> unfulfilled, received |-> due,
              shipment |-> shipment,
              sentAt |-> IF due THEN Head(w.tags[roleId]) ELSE 0,
              placed |-> quantity ]
    IN  [ e    |-> [w.e EXCEPT ![roleId] = stepped],
          rng  |-> w.rng,
          log  |-> [w.log EXCEPT ![roleId] = entry],
          tags |-> [w.tags EXCEPT ![roleId] = IF due THEN Tail(@) ELSE @],
          seq  |-> Append(w.seq, roleId),
          stockoutCost |-> StockoutCost(unfulfilled),
          holdingCost  |-> HoldingCost(inventory),
          fulfilled    |-> fulfilled,
          unfulfilled  |-> unfulfilled ]

\* processAIEntities, lines 151-178: one role takes its incoming order,
\* fulfils it and receives a shipment
AIReceive(w, roleId, round) ==
    LET entity         == w.e[roleId]
        isRetailer     == roleId = "retailer"
        downstreamRoleId == IF isRetailer THEN roleId ELSE roleOrder[IndexOf(roleId) - 1]
        drawn          == GetCustomerDemand(round, w.rng)
        incomingOrder  == IF isRetailer THEN drawn.demand
                          ELSE ShiftOrZero(w.e[downstreamRoleId].outgoingOrders)
        pushed         == Append(entity.incomingOrders, incomingOrder)
        orderToProcess == ShiftOrZero(pushed)
        fulfilled      == Fulfilled(orderToProcess, entity.inventory)
        unfulfilled    == Unfulfilled(orderToProcess, fulfilled)
        due            == ShipmentDue(entity.incomingShipments)
        shipment       == IF due THEN Head(entity.incomingShipments) ELSE 0
    IN  [ rng            |-> IF isRetailer THEN drawn.rng ELSE w.rng,
          orderToProcess |-> orderToProcess,
          fulfilled      |-> fulfilled,
          unfulfilled    |-> unfulfilled,
          due            |-> due,
          shipment       |-> shipment,
          entity         |->
              [ entity EXCEPT
                  !.incomingOrders    = Shifted(pushed),
                  !.inventory         = (@ - fulfilled) + shipment,
                  !.unfulfilledDemand = @ + unfulfilled,
                  !.incomingShipments = IF due THEN Tail(@) ELSE @ ] ]

\* processAIEntities, lines 180-195: the role places its order, accrues its
\* costs and ships downstream; got is AIReceive's result, ai CalculateAIOrder's
AIPlace(w, roleId, ordinal, got, ai) ==
    LET isRetailer     == roleId = "retailer"
        downstreamRoleId == IF isRetailer THEN roleId ELSE roleOrder[IndexOf(roleId) - 1]
        stepped        ==
            [ got.entity EXCEPT
                !.outgoingOrders    = Append(@, ai.order),
                !.orderHistory      = Append(@, got.orderToProcess),
                !.stockoutCosts     = @ + StockoutCost(got.unfulfilled),
                !.holdingCosts      = @ + HoldingCost(got.entity.inventory),
                !.inventoryHistory  = Append(@, got.entity.inventory) ]
        entry          ==
            [ ordinal |-> ordinal, external |-> FALSE, order |-> got.orderToProcess,
              invBefore |-> w.e[roleId].inventory,
              udBefore |-> w.e[roleId].unfulfilledDemand,
              fulfilled |-> got.fulfilled, unfulfilled |-> got.unfulfilled,
              received |-> got.due, shipment |-> got.shipment,
              sentAt |-> IF got.due THEN Head(w.tags[roleId]) ELSE 0,
              placed |-> ai.order ]
    IN  IF isRetailer
        THEN [w EXCEPT !.e[roleId] = stepped,
                       !.rng = ai.rng,
                       !.log[roleId] = entry,
                       !.tags[roleId] = IF got.due THEN Tail(@) ELSE @,
                       !.seq = Append(@, roleId)]
        ELSE [w EXCEPT !.e[roleId] = stepped,
                       \* the downstream entity's outgoingOrders.shift() of line 161
                       !.e[downstreamRoleId].outgoingOrders = Shifted(@),
                       \* downstreamEntity.incomingShipments.push(fulfilled)
                       !.e[downstreamRoleId].incomingShipments = Append(@, got.fulfilled),
                       !.rng = ai.rng,
                       !.log[roleId] = entry,
                       !.tags[roleId] = IF got.due THEN Tail(@) ELSE @,
                       !.tags[downstreamRoleId] = Append(@, ordinal),
                       !.seq = Append(@, roleId)]

\* processAIEntities, lines 151-195: the body of the forEach for one role
AIEntityStep(w, roleId, round, ordinal) ==
    TheOne({ TheOne({ AIPlace(w, roleId, ordinal, got, ai) :
                      ai \in {CalculateAIOrder(got.entity, GetAIStrategy(roleId, round),
                                               got.orderToProcess, got.rng)} }) :
             got \in {AIReceive(w, roleId, round)} })

\* processAIEntities, lines 148-149 and 196: roleOrder.forEach from index i
RECURSIVE ForEachRole(_, _, _, _, _)
ForEachRole(w, i, round, playerRoleId, ordinal) ==
    IF i > Len(roleOrder) THEN w
    ELSE LET roleId == roleOrder[i]
             next   == IF IsSkipped(roleId, playerRoleId) THEN w
                       ELSE AIEntityStep(w, roleId, round, ordinal)
         IN  TheOne({ForEachRole(n, i + 1, round, playerRoleId, ordinal) : n \in {next}})

\* processAIEntities, lines 198-202: "Handle supplier shipments to manufacturer"
SupplierShipment(w, ordinal) ==
    LET supplierOrders == w.e["supplier"].incomingOrders
        supplierOrder  == IF supplierOrders = <<>> THEN 0
                          ELSE supplierOrders[Len(supplierOrders)]
    IN  [w EXCEPT !.e["manufacturer"].incomingShipments = Append(@, supplierOrder),
                  !.tags["manufacturer"] = Append(@, ordinal)]

ProcessAIEntities(w, round, playerRoleId, ordinal) ==
    TheOne({SupplierShipment(v, ordinal) :
                v \in {ForEachRole(w, 1, round, playerRoleId, ordinal)}})

\* processPlayerOrder(roleId, quantity, round)
ProcessPlayerOrder(roleId, quantity, round) ==
    /\ Len(roundLog) < MaxCalls
    /\ lastCall' = [role |-> roleId, quantity |-> quantity, round |-> round, rng |-> rng]
    /\ lastRead' = NoRead
    /\ UNCHANGED <<probe, animVars>>
    /\ IF LookupRole(roleId) = Undefined
       THEN \* entity is undefined: reading entity.incomingOrders throws
            /\ lastResult' = [threw |-> "TypeError"]
            /\ UNCHANGED <<entities, rng, roundLog, stepLog, shipTags, updateOrder>>
       ELSE \E key \in {LookupRole(roleId)}, ordinal \in {Len(roundLog) + 1},
               w0 \in {[e |-> entities, rng |-> rng, log |-> stepLog, tags |-> shipTags,
                        seq |-> <<>>]} :
            \E w1 \in {PlayerEntityStep(w0, key, quantity, ordinal)} :
            \E w2 \in {ProcessAIEntities(w1, round, key, ordinal)} :
                /\ entities'   = w2.e
                /\ rng'        = w2.rng
                /\ stepLog'    = w2.log
                /\ shipTags'   = w2.tags
                /\ updateOrder' = w2.seq
                /\ roundLog'   = Append(roundLog, round)
                /\ lastResult' = [ threw        |-> "none",
                                   newInventory |-> w2.e[key].inventory,
                                   stockoutCost |-> w1.stockoutCost,
                                   holdingCost  |-> w1.holdingCost,
                                   fulfilled    |-> w1.fulfilled,
                                   unfulfilled  |-> w1.unfulfilled ]

----------------------------------------------------------------------------
\* The caller

\* a call naming one of the five roles
PlayRound ==
    \E roleId \in RoleIds, quantity \in Quantities, round \in RoundArgs(Len(roundLog)) :
        ProcessPlayerOrder(roleId, quantity, round)

\* a call naming a role that is no chain member
PlayUnknownRole ==
    \E roleId \in UnknownRoleIds :
        ProcessPlayerOrder(roleId, MaxQuantity, Len(roundLog) + 1)

Next == PlayRound \/ PlayUnknownRole

Spec == Init /\ [][Next]_vars

----------------------------------------------------------------------------
\* Properties

\* number of completed processPlayerOrder calls
RoundsProcessed == Len(roundLog)

\* C1: after any sequence of calls with a valid role and a non-negative
\* quantity, every entity's inventory is >= 0 (and so is every inventory
\* recorded in its history).
C1_InventoryNonNegative ==
    \A r \in RoleIds :
        /\ entities[r].inventory >= 0
        /\ \A k \in 1..Len(entities[r].inventoryHistory) :
               entities[r].inventoryHistory[k] >= 0

\* C1 witness: an entity was asked for more than it had and ended at 0.
C1_Witness ==
    \E r \in RoleIds :
        /\ stepLog[r].ordinal > 0
        /\ stepLog[r].order > stepLog[r].invBefore
        /\ ~stepLog[r].received
        /\ entities[r].inventory = 0

\* C2 (as claimed): a shipment quantity pushed onto an entity's
\* incomingShipments in round R is not added to its inventory before round
\* R + 2, for every receiving role.  Rounds are counted in completed calls.
C2_ShipmentLatency ==
    \A r \in RoleIds :
        (stepLog[r].received /\ stepLog[r].shipment > 0) =>
            stepLog[r].ordinal >= stepLog[r].sentAt + 2

\* The latency does hold for the three roles that get at most one shipment
\* a round.
ShipmentLatencyBelowManufacturer ==
    \A r \in {"retailer", "distributor", "wholesaler"} :
        stepLog[r].received => stepLog[r].ordinal >= stepLog[r].sentAt + 2

\* and those roles do receive shipments, two rounds after they were sent
ShipmentReceivedBelowManufacturer ==
    \E r \in {"retailer", "distributor", "wholesaler"} :
        /\ stepLog[r].received
        /\ stepLog[r].shipment > 0
        /\ stepLog[r].ordinal = stepLog[r].sentAt + 2

\* C3 (as claimed): the incoming order a non-retailer role processes in
\* round R is the quantity its adjacent downstream entity placed in round R.
C3_IncomingOrderFromDownstream ==
    RoundsProcessed > 0 =>
        \A i \in 2..Len(roleOrder) :
            stepLog[roleOrder[i]].order = stepLog[roleOrder[i - 1]].placed

\* C4 (as claimed): the player's order to process is determined as for an
\* AI role; a player retailer processes the customer demand drawn for the
\* round, and with inventory 12 and demand 5 in round 1 the call returns
\* fulfilled 5, unfulfilled 0, newInventory 7, stockoutCost 0, holdingCost 3.5.
C4_PlayerRetailerFacesDemand ==
    (lastResult.threw = "none" /\ lastCall.role = "retailer") =>
        LET demand == GetCustomerDemand(lastCall.round, lastCall.rng).demand IN
        /\ stepLog["retailer"].order = demand
        /\ (RoundsProcessed = 1 /\ lastCall.round = 1 /\ demand = 5) =>
               /\ lastResult.fulfilled = 5
               /\ lastResult.unfulfilled = 0
               /\ lastResult.newInventory = 7
               /\ lastResult.stockoutCost = 0
               /\ lastResult.holdingCost = 7

\* C5: in every per-entity step, on both paths, fulfilled is the smaller of
\* the order and the inventory before the step, unfulfilled is the rest of
\* the order, the inventory drops by exactly fulfilled (before the shipment
\* received in the step is added) and unfulfilledDemand grows by exactly
\* unfulfilled.
C5_FulfilmentArithmetic ==
    /\ \A r \in RoleIds :
        LET s == stepLog[r]
            e == entities[r]
        IN  s.ordinal > 0 =>
                /\ s.fulfilled = IF s.order <= s.invBefore THEN s.order ELSE s.invBefore
                /\ s.unfulfilled = s.order - s.fulfilled
                /\ s.fulfilled + s.unfulfilled = s.order
                /\ e.inventory = (s.invBefore - s.fulfilled) + s.shipment
                /\ e.unfulfilledDemand = s.udBefore + s.unfulfilled
                /\ e.orderHistory[Len(e.orderHistory)] = s.order
    \* the example of the claim: inventory 2, order 8
    /\ Fulfilled(8, 2) = 2
    /\ Unfulfilled(8, Fulfilled(8, 2)) = 6
    /\ 2 - Fulfilled(8, 2) = 0

\* C5 witness: a step with a non-empty stock smaller than the order, and in
\* the same round the player's own step.
C5_Witness ==
    /\ \E r \in RoleIds :
           /\ stepLog[r].ordinal > 0
           /\ stepLog[r].invBefore > 0
           /\ stepLog[r].order > stepLog[r].invBefore
           /\ stepLog[r].unfulfilled > 0
           /\ entities[r].inventory = stepLog[r].shipment
    /\ \E r \in RoleIds : stepLog[r].external

\* C6: after k completed calls every entity has k + 1 inventoryHistory
\* entries and k orderHistory entries.
C6_HistoryLengths ==
    \A r \in RoleIds :
        /\ Len(entities[r].inventoryHistory) = RoundsProcessed + 1
        /\ Len(entities[r].orderHistory) = RoundsProcessed

\* C6 witness: two rounds completed, every entity stepped in the second.
C6_Witness ==
    /\ RoundsProcessed = 2
    /\ \A r \in RoleIds : stepLog[r].ordinal = 2 /\ Len(entities[r].orderHistory) = 2

\* C7 (as claimed): a call whose round is outside 1..20, or is not the next
\* round in sequence, is rejected and advances nothing; so the rounds
\* processed are 1, 2, 3, ... and at most 20 of them.
C7_OnlySequentialRoundsProcessed ==
    \A k \in 1..RoundsProcessed : roundLog[k] = k /\ k <= LastRound

C9_AccumulatorsMonotone ==
    [][ \A r \in RoleIds :
            /\ entities[r].unfulfilledDemand >= 0
            /\ entities[r].stockoutCosts >= 0
            /\ entities[r].holdingCosts >= 0
            /\ entities'[r].unfulfilledDemand >= entities[r].unfulfilledDemand
            /\ entities'[r].stockoutCosts >= entities[r].stockoutCosts
            /\ entities'[r].holdingCosts >= entities[r].holdingCosts ]_vars

\* C9 witness: after two rounds an entity has accrued both kinds of cost.
C9_Witness ==
    /\ RoundsProcessed >= 2
    /\ \E r \in RoleIds :
           /\ entities[r].unfulfilledDemand > 0
           /\ entities[r].stockoutCosts > 0
           /\ entities[r].holdingCosts > 0

----------------------------------------------------------------------------
\* Read-only operations of the engine and the analytics of
\* score-calculator.js (src/unnamed/part_002)
\*
\* Numbers.  Means, variances and ratios are JavaScript doubles; they are
\* kept here as exact fractions [num, den] with den > 0, compared by cross
\* multiplication.  A square root is kept as the fraction under the root.

Rat(n, d) == [num |-> n, den |-> d]

RatEq(a, b) == a.num * b.den = b.num * a.den

RatLeq(a, b) == a.num * b.den <= b.num * a.den

\* a / b for fractions a and b, b # 0
RatDiv(a, b) == Rat(a.num * b.den, a.den * b.num)

RECURSIVE SumSquares(_)
SumSquares(seq) == IF seq = <<>> THEN 0 ELSE Head(seq) * Head(seq) + SumSquares(Tail(seq))

\* array.slice(0, n)
SliceFirst(seq, n) == SubSeq(seq, 1, Min(n, Len(seq)))

\* mutant: splice(-10) in place of slice(-10) takes the entries out of the receiver
AfterSplice(array) == SubSeq(array, 1, Max(0, Len(array) - 10))

\* the receiver of array.slice(...) after the call: slice copies
AfterSlice(array) == array

\* mutant: the sum is taken by shifting the entries out of the array
AfterDrain(array) == <<>>

\* the receiver of array.reduce(...) after the call: reduce only reads
AfterReduce(array) == array

\* Array.prototype.sort with the comparator (a, b) => a.key - b.key on a
\* sequence of [key, value] records: ascending, and stable (equal keys keep
\* their order), entry by entry
InsertAscending(sorted, x) ==
    LET before == {k \in 1..Len(sorted) : sorted[k].key <= x.key}
        at     == IF before = {} THEN 0 ELSE CHOOSE k \in before : \A j \in before : j <= k
    IN  SubSeq(sorted, 1, at) \o <<x>> \o SubSeq(sorted, at + 1, Len(sorted))

RECURSIVE SortAscending(_)
SortAscending(seq) ==
    IF seq = <<>> THEN <<>>
    ELSE TheOne({InsertAscending(front, seq[Len(seq)]) :
                     front \in {SortAscending(SubSeq(seq, 1, Len(seq) - 1))}})

\* GameEngine.calculateResponsibilityScore(roleId), on the entities e
EngineResponsibilityOrder == <<"supplier", "manufacturer", "wholesaler", "distributor", "retailer">>

EngineResponsibilityScore(e, roleId) ==
    LET order     == EngineResponsibilityOrder
        roleIndex == CHOOSE k \in 1..Len(order) : order[k] = roleId
        own       == e[roleId].unfulfilledDemand
        shares    == [k \in 1..Len(order) |->
                         IF k > roleIndex /\ own > 0 /\ e[order[k]].unfulfilledDemand > 0
                         THEN Min(own, e[order[k]].unfulfilledDemand) ELSE 0]
    IN  SumSeq(shares)

\* ScoreCalculator.calculateResponsibilityScore(roleId, entities, roleOrder);
\* stockoutHistory maps a role to its stockout history, <<>> where the entity
\* has none (an absent and an empty history are read alike).  Rounds are the
\* array indices, from 0.
ResponsibilityScore(roleId, stockoutHistory, order) ==
    LET roleIndex == CHOOSE k \in 1..Len(order) : order[k] = roleId
        own       == stockoutHistory[roleId]
        share(round, i) ==
            LET affectedRound == round + (roleIndex - i) * 2
                theirs        == stockoutHistory[order[i]]
            IN  IF own[round + 1] > 0 /\ affectedRound + 1 <= Len(theirs)
                   /\ theirs[affectedRound + 1] > 0
                THEN Min(own[round + 1], theirs[affectedRound + 1]) ELSE 0
        perRound == [k \in 1..Len(own) |->
                        SumSeq([i \in 1..(roleIndex - 1) |-> share(k - 1, i)])]
    IN  SumSeq(perRound)

\* the entry getFinalResults maps a role to
FinalRanking(e, roleId) ==
    [ roleId              |-> roleId,
      totalCost           |-> e[roleId].stockoutCosts + e[roleId].holdingCosts,
      stockoutCosts       |-> e[roleId].stockoutCosts,
      holdingCosts        |-> e[roleId].holdingCosts,
      responsibilityScore |-> EngineResponsibilityScore(e, roleId),
      avgInventory        |-> Rat(SumSeq(e[roleId].inventoryHistory),
                                  Len(e[roleId].inventoryHistory)) ]

\* getFinalResults(), on the entities e whose keys were inserted in the
\* order keys.  playerRoleHistory, which only assignRandomRole writes, is
\* left out.
GetFinalResults(e, keys) ==
    LET mapped == [k \in 1..Len(keys) |->
                      [key |-> e[keys[k]].stockoutCosts + e[keys[k]].holdingCosts,
                       value |-> FinalRanking(e, keys[k])]]
        sorted == SortAscending(mapped)
    IN  [ rankings         |-> [k \in 1..Len(sorted) |-> sorted[k].value],
          inventoryHistory |-> [r \in RoleIds |-> e[r].inventoryHistory],
          orderHistory     |-> [r \in RoleIds |-> e[r].orderHistory] ]

\* ScoreCalculator.rankEntities(entities, roleOrder): e maps the keys to
\* entities, keys is Object.keys(entities)
RankEntities(e, keys, stockoutHistory, order) ==
    LET ranking(roleId) ==
            [ roleId              |-> roleId,
              totalCosts          |-> e[roleId].stockoutCosts + e[roleId].holdingCosts,
              stockoutCosts       |-> e[roleId].stockoutCosts,
              holdingCosts        |-> e[roleId].holdingCosts,
              responsibilityScore |-> ResponsibilityScore(roleId, stockoutHistory, order),
              avgInventory        |-> Rat(SumSeq(e[roleId].inventoryHistory),
                                          Len(e[roleId].inventoryHistory)),
              totalStockouts      |-> e[roleId].unfulfilledDemand ]
        mapped == [k \in 1..Len(keys) |->
                      [key |-> e[keys[k]].stockoutCosts + e[keys[k]].holdingCosts,
                       value |-> ranking(keys[k])]]
        sorted == SortAscending(mapped)
        ranked(v, index) ==
            [ roleId              |-> v.roleId,
              totalCosts          |-> v.totalCosts,
              stockoutCosts       |-> v.stockoutCosts,
              holdingCosts        |-> v.holdingCosts,
              responsibilityScore |-> v.responsibilityScore,
              avgInventory        |-> v.avgInventory,
              totalStockouts      |-> v.totalStockouts,
              rank                |-> index ]
    IN  [k \in 1..Len(sorted) |-> ranked(sorted[k].value, k)]

\* orders.reduce((a, b) => a + b, 0) / orders.length
Mean(orders) == Rat(SumSeq(orders), Len(orders))

\* the mean of the squared distances to the mean (population variance):
\* sum((o - S/n)^2) / n = (n * sum(o^2) - S^2) / n^2
Variance(orders) ==
    Rat(Len(orders) * SumSquares(orders) - SumSeq(orders) * SumSeq(orders),
        Len(orders) * Len(orders))

\* mean > 0 ? Math.sqrt(variance) / mean : 0, squared: variance / mean^2
CoefficientOfVariationSquared(orders) ==
    IF Mean(orders).num > 0
    THEN RatDiv(Variance(orders), Rat(Mean(orders).num * Mean(orders).num,
                                      Mean(orders).den * Mean(orders).den))
    ELSE Rat(0, 1)

\* variance / (downstreamVariance || 1), downstreamVariance being
\* metrics[downstreamRoleId]?.variance || 1: a zero variance is replaced by 1
BullwhipRatio(variance, downstreamVariance) ==
    RatDiv(variance, IF downstreamVariance.num = 0 THEN Rat(1, 1) ELSE downstreamVariance)

\* the metrics of the role at position index (from 1) of order;
\* orderHistory maps a role to its order history, <<>> where it has none.
\* A role without history gets { variance: 0, ratio: 1 } and no bullwhipRatio.
RoleMetrics(orderHistory, order, index) ==
    LET orders == orderHistory[order[index]]
        downstreamVariance ==
            IF index > 1 /\ orderHistory[order[index - 1]] # <<>>
            THEN Variance(orderHistory[order[index - 1]]) ELSE Rat(0, 1)
    IN  IF orders = <<>>
        THEN [ hasHistory |-> FALSE, mean |-> Rat(0, 1), variance |-> Rat(0, 1),
               coefficientOfVariationSquared |-> Rat(0, 1),
               hasBullwhipRatio |-> FALSE, bullwhipRatio |-> Rat(0, 1), ratio |-> 1 ]
        ELSE [ hasHistory |-> TRUE, mean |-> Mean(orders), variance |-> Variance(orders),
               coefficientOfVariationSquared |-> CoefficientOfVariationSquared(orders),
               hasBullwhipRatio |-> TRUE,
               bullwhipRatio |-> IF index > 1
                                 THEN BullwhipRatio(Variance(orders), downstreamVariance)
                                 ELSE Rat(1, 1),
               ratio |-> 0 ]

\* ScoreCalculator.calculateBullwhipMetrics(entities, roleOrder)
CalculateBullwhipMetrics(orderHistory, order) ==
    [k \in 1..Len(order) |-> RoleMetrics(orderHistory, order, k)]

\* mutant: the guard on a zero total is missing
ServiceLevelUnguarded(fulfilled, total) == Rat(fulfilled * 100, total)

\* ScoreCalculator.calculateServiceLevel(fulfilled, total): (fulfilled / total) * 100
CalculateServiceLevel(fulfilled, total) ==
    IF total = 0 THEN Rat(100, 1) ELSE Rat(fulfilled * 100, total)

\* ScoreCalculator.calculateInventoryTurnover(avgInventory, totalDemand, periods)
CalculateInventoryTurnover(avgInventory, totalDemand, periods) ==
    IF avgInventory = 0 THEN Rat(0, 1) ELSE Rat(totalDemand, avgInventory)

\* ScoreCalculator.calculateFillRate(ordersFilled, totalOrders)
CalculateFillRate(ordersFilled, totalOrders) ==
    IF totalOrders = 0 THEN Rat(100, 1) ELSE Rat(ordersFilled * 100, totalOrders)

----------------------------------------------------------------------------
\* The read-only calls a caller makes between rounds

\* at most MaxReads read-only calls are made between two rounds
MaxReads == 2

\* the role list handed to the constructor; Object.keys(this.entities)
\* lists the roles in this order
roles == roleOrder

Strategies == {"conservative", "balanced", "aggressive", "reactive"}

\* the record of a read-only call; repeated: the call before it, with no
\* round in between, was a call of the same operation
ReadOf(op, arg, result) ==
    [op |-> op, reads |-> lastRead.reads + 1, repeated |-> lastRead.op = op,
     arg |-> arg, result |-> result]

\* getRoundState(round, roleId)
GetRoundState(roleId) ==
    /\ lastRead.reads < MaxReads
    /\ lastRead' = ReadOf("getRoundState", roleId,
                          [ inventory         |-> entities[roleId].inventory,
                            pendingOrders     |-> SliceFirst(entities[roleId].incomingOrders, 1),
                            incomingShipments |-> entities[roleId].incomingShipments,
                            orderHistory      |-> SliceLast(entities[roleId].orderHistory, 10) ])
    /\ entities' = [entities EXCEPT ![roleId].incomingOrders = AfterSlice(@),
                                    ![roleId].orderHistory   = AfterSlice(@)]
    /\ UNCHANGED <<rng, roundLog, lastCall, lastResult, stepLog, shipTags, updateOrder, probe, animVars>>

\* getFinalResults(): rankings is a fresh array, sorted in place; the
\* histories are handed out as they are
GetFinalResultsCall ==
    /\ lastRead.reads < MaxReads
    /\ lastRead' = ReadOf("getFinalResults", "all", GetFinalResults(entities, roles))
    /\ entities' = [r \in RoleIds |->
                       [entities[r] EXCEPT !.inventoryHistory = AfterReduce(@)]]
    /\ UNCHANGED <<rng, roundLog, lastCall, lastResult, stepLog, shipTags,
                   updateOrder, probe, animVars>>

\* calculateAIOrder(entity, strategy, currentOrder, round) on a chain entity:
\* one draw of Math.random()
CalculateAIOrderCall(roleId, strategy, currentOrder) ==
    /\ lastRead.reads < MaxReads
    /\ \E ai \in {CalculateAIOrder(entities[roleId], strategy, currentOrder, rng)} :
           /\ lastRead' = ReadOf("calculateAIOrder", <<roleId, strategy>>, ai.order)
           /\ rng' = ai.rng
    /\ entities' = [entities EXCEPT ![roleId].orderHistory = AfterReduce(AfterSlice(@))]
    /\ UNCHANGED <<roundLog, lastCall, lastResult, stepLog, shipTags, updateOrder, probe, animVars>>

\* ScoreCalculator.rankEntities(engine.entities, roleOrder); the engine's
\* entities carry no stockoutHistory
RankEntitiesCall ==
    /\ lastRead.reads < MaxReads
    /\ lastRead' = ReadOf("rankEntities", "all",
                          RankEntities(entities, roles, [r \in RoleIds |-> <<>>], roleOrder))
    /\ entities' = [r \in RoleIds |->
                       [entities[r] EXCEPT !.inventoryHistory = AfterReduce(@)]]
    /\ UNCHANGED <<rng, roundLog, lastCall, lastResult, stepLog, shipTags,
                   updateOrder, probe, animVars>>

\* ScoreCalculator.calculateBullwhipMetrics(engine.entities, roleOrder)
CalculateBullwhipMetricsCall ==
    /\ lastRead.reads < MaxReads
    /\ lastRead' = ReadOf("calculateBullwhipMetrics", "all",
                          CalculateBullwhipMetrics([r \in RoleIds |-> entities[r].orderHistory],
                                                   roleOrder))
    /\ entities' = [r \in RoleIds |->
                       [entities[r] EXCEPT !.orderHistory = AfterReduce(@)]]
    /\ UNCHANGED <<rng, roundLog, lastCall, lastResult, stepLog, shipTags,
                   updateOrder, probe, animVars>>

\* a round played in sequence, the player ordering MaxQuantity
PlayInSequence ==
    \E roleId \in {"retailer", "wholesaler"} :
        ProcessPlayerOrder(roleId, MaxQuantity, Len(roundLog) + 1)

ReadRoundState == \E roleId \in {"retailer", "manufacturer"} : GetRoundState(roleId)

ReadAIOrder ==
    \E roleId \in {"supplier"}, strategy \in {"balanced", "reactive"} :
        CalculateAIOrderCall(roleId, strategy, MaxQuantity)

ReadNext ==
    \/ PlayInSequence
    \/ ReadRoundState
    \/ GetFinalResultsCall
    \/ ReadAIOrder
    \/ RankEntitiesCall
    \/ CalculateBullwhipMetricsCall

\* rounds with read-only calls in between
ReadSpec == Init /\ [][ReadNext]_vars

\* a step that is a read-only call
IsRead == lastRead'.reads = lastRead.reads + 1

\* C11: a read-only call (getRoundState, getFinalResults, calculateAIOrder,
\* ScoreCalculator.rankEntities, ScoreCalculator.calculateBullwhipMetrics)
\* leaves every entity as it was: inventory, queues, histories and cost
\* accumulators, however many calls are made between two rounds.
C11_ReadsLeaveEntities == [][IsRead => entities' = entities]_vars

\* C11 witness: after a round, a second read-only call in a row has been
\* made on entities that have a history.
C11_Witness ==
    /\ lastRead.reads = 2
    /\ lastRead.op = "getRoundState"
    /\ Len(roundLog) >= 2
    /\ lastRead.result.orderHistory # <<>>

\* C12: getFinalResults is idempotent: of two consecutive calls, with no
\* processPlayerOrder call in between, the second returns what the first
\* returned (rankings in the same order with the same costs and scores, and
\* the same inventory and order history per role).
C12_FinalResultsIdempotent ==
    [][ (IsRead /\ lastRead.op = "getFinalResults" /\ lastRead'.op = "getFinalResults")
            => lastRead'.result = lastRead.result ]_vars

\* C12 witness: getFinalResults has been called twice in a row after two
\* rounds, on entities whose costs differ.
C12_Witness ==
    /\ lastRead.op = "getFinalResults"
    /\ lastRead.repeated
    /\ Len(roundLog) >= 2
    /\ lastRead.result.rankings[1].totalCost < lastRead.result.rankings[5].totalCost
    /\ lastRead.result.orderHistory["retailer"] # <<>>

----------------------------------------------------------------------------
\* Ranking, as a function of the entities handed in

\* the largest stockout cost of a ranked entity, in half units
MaxCost == 1

\* the chain from its upstream end
SupplierFirst == EngineResponsibilityOrder

\* orders in which the keys of the entities object were inserted
KeyOrders == {roleOrder, SupplierFirst, SubSeq(roleOrder, 2, 4)}

\* the entities ranked by a probe
ProbeEntities ==
    [r \in RoleIds |-> [NewEntity EXCEPT !.stockoutCosts = probe.stockoutCosts[r],
                                         !.holdingCosts  = probe.holdingCosts[r]]]

RankInit ==
    /\ NewGame
    /\ probe \in [ op            : {"entities"},
                    keys          : KeyOrders,
                    stockoutCosts : [RoleIds -> 0..MaxCost],
                    holdingCosts  : [RoleIds -> {0, InitialInventory}],
                    result        : {<<>>} ]

\* ScoreCalculator.rankEntities(entities, roleOrder)
ApplyRankEntities ==
    /\ probe.op = "entities"
    /\ probe' = [probe EXCEPT !.op = "rankEntities",
                              !.result = RankEntities(ProbeEntities, probe.keys,
                                                      [r \in RoleIds |-> <<>>], roleOrder)]
    /\ UNCHANGED <<gameVars, lastRead, animVars>>

\* getFinalResults().rankings
ApplyFinalRankings ==
    /\ probe.op = "entities"
    /\ probe' = [probe EXCEPT !.op = "getFinalResults",
                              !.result = GetFinalResults(ProbeEntities, probe.keys).rankings]
    /\ UNCHANGED <<gameVars, lastRead, animVars>>

RankNext == ApplyRankEntities \/ ApplyFinalRankings

RankSpec == RankInit /\ [][RankNext]_vars

\* a ranking has been computed
Ranked == probe.op \in {"rankEntities", "getFinalResults"}

\* the total cost of a ranking entry (totalCosts in rankEntities, totalCost
\* in getFinalResults)
EntryCost(entry) ==
    IF "totalCosts" \in DOMAIN entry THEN entry.totalCosts ELSE entry.totalCost

\* position of a role in the chain counted from the supplier
ChainPosition(roleId) == CHOOSE k \in 1..Len(SupplierFirst) : SupplierFirst[k] = roleId

\* position of a role among the keys of the ranked object
KeyPosition(roleId) == CHOOSE k \in 1..Len(probe.keys) : probe.keys[k] = roleId

\* N entries, one per role handed in, in non-decreasing order of total cost
RankingIsSortedPermutation ==
    Ranked =>
        /\ Len(probe.result) = Len(probe.keys)
        /\ \A k \in 1..Len(probe.keys) :
               \E j \in 1..Len(probe.result) : probe.result[j].roleId = probe.keys[k]
        /\ \A j \in 1..Len(probe.result) :
               /\ EntryCost(probe.result[j]) =
                      probe.stockoutCosts[probe.result[j].roleId]
                          + probe.holdingCosts[probe.result[j].roleId]
               /\ j > 1 => EntryCost(probe.result[j - 1]) <= EntryCost(probe.result[j])

\* C13 (as claimed): ranking N entities, by ScoreCalculator.rankEntities or
\* as the rankings of getFinalResults, returns N entries, one per role, in
\* non-decreasing order of stockoutCosts + holdingCosts, the entry at
\* position k annotated with rank k, and entries of equal total cost in role
\* chain order, supplier first.
C13_RankingAsClaimed ==
    /\ RankingIsSortedPermutation
    /\ Ranked =>
           \A j \in 1..Len(probe.result) :
               /\ "rank" \in DOMAIN probe.result[j]
               /\ probe.result[j].rank = j
               /\ \A i \in 1..(j - 1) :
                      EntryCost(probe.result[i]) = EntryCost(probe.result[j])
                          => ChainPosition(probe.result[i].roleId)
                                 < ChainPosition(probe.result[j].roleId)

\* What the code does guarantee: a sorted permutation; ranks 1..N from
\* rankEntities only; ties in the order of the keys of the object handed in.
RankingAsImplemented ==
    /\ RankingIsSortedPermutation
    /\ Ranked =>
           \A j \in 1..Len(probe.result) :
               /\ probe.op = "rankEntities"
                      => "rank" \in DOMAIN probe.result[j] /\ probe.result[j].rank = j
               /\ probe.op = "getFinalResults" => "rank" \notin DOMAIN probe.result[j]
               /\ \A i \in 1..(j - 1) :
                      EntryCost(probe.result[i]) = EntryCost(probe.result[j])
                          => KeyPosition(probe.result[i].roleId)
                                 < KeyPosition(probe.result[j].roleId)

----------------------------------------------------------------------------
\* Bullwhip metrics, as a function of the order histories handed in

\* the longest order history of a probe
MaxHistory == 2

\* the orders of a probe's histories
OrderValues == {0, 4, 8}

\* order histories of at most MaxHistory entries
Histories == UNION {[1..n -> OrderValues] : n \in 0..MaxHistory}

\* the roles whose histories vary; the two upstream of them have none
ProbedRoles == {"retailer", "distributor", "wholesaler"}

BullwhipInit ==
    /\ NewGame
    /\ \E h \in [ProbedRoles -> Histories] :
           probe = [ op           |-> "histories",
                     orderHistory |-> [r \in RoleIds |-> IF r \in ProbedRoles THEN h[r] ELSE <<>>],
                     result       |-> <<>> ]

\* ScoreCalculator.calculateBullwhipMetrics(entities, roleOrder)
ApplyBullwhipMetrics ==
    /\ probe.op = "histories"
    /\ probe' = [probe EXCEPT !.op = "calculateBullwhipMetrics",
                              !.result = CalculateBullwhipMetrics(probe.orderHistory, roleOrder)]
    /\ UNCHANGED <<gameVars, lastRead, animVars>>

BullwhipNext == ApplyBullwhipMetrics

BullwhipSpec == BullwhipInit /\ [][BullwhipNext]_vars

\* population variance by its definition: the mean of (o - S/n)^2 over the
\* n orders, as the fraction sum((n * o - S)^2) / n^3; 0 for no orders
PopulationVariance(orders) ==
    LET n == Len(orders)
        S == SumSeq(orders)
    IN  IF n = 0 THEN Rat(0, 1)
        ELSE Rat(SumSeq([k \in 1..n |-> (n * orders[k] - S) * (n * orders[k] - S)]),
                 n * n * n)

\* C14 (as claimed): for every role, bullwhipRatio is variance(role's
\* orderHistory) / variance(the immediately downstream role's orderHistory),
\* and it is 1 for the most downstream role and whenever the downstream
\* role's variance is 0; variances are population variances.  Stated for
\* the roles that have an order history.
C14_BullwhipRatioAsClaimed ==
    probe.op = "calculateBullwhipMetrics" =>
        \A k \in 1..Len(roleOrder) :
            LET own  == PopulationVariance(probe.orderHistory[roleOrder[k]])
                down == IF k = 1 THEN Rat(0, 1)
                        ELSE PopulationVariance(probe.orderHistory[roleOrder[k - 1]])
            IN  probe.orderHistory[roleOrder[k]] # <<>> =>
                    /\ probe.result[k].hasBullwhipRatio
                    /\ RatEq(probe.result[k].bullwhipRatio,
                             IF k = 1 \/ down.num = 0 THEN Rat(1, 1) ELSE RatDiv(own, down))

\* What the code computes: for a role with a history, 1 at the downstream
\* end, variance / downstream variance where that is not 0, and the role's
\* own variance where it is 0 (0 is replaced by 1 as the divisor); a role
\* without history gets no bullwhipRatio.  Variances 4 over 16 give 1/4.
BullwhipRatioAsImplemented ==
    probe.op = "calculateBullwhipMetrics" =>
        \A k \in 1..Len(roleOrder) :
            LET own  == PopulationVariance(probe.orderHistory[roleOrder[k]])
                down == IF k = 1 THEN Rat(0, 1)
                        ELSE PopulationVariance(probe.orderHistory[roleOrder[k - 1]])
            IN  /\ probe.result[k].hasBullwhipRatio = (probe.orderHistory[roleOrder[k]] # <<>>)
                /\ RatEq(probe.result[k].variance, own)
                /\ probe.result[k].hasBullwhipRatio =>
                       /\ RatEq(probe.result[k].bullwhipRatio,
                                IF k = 1 THEN Rat(1, 1)
                                ELSE IF down.num = 0 THEN own ELSE RatDiv(own, down))
                       /\ (RatEq(own, Rat(4, 1)) /\ RatEq(down, Rat(16, 1)))
                              => RatEq(probe.result[k].bullwhipRatio, Rat(1, 4))

----------------------------------------------------------------------------
\* The guarded ratios, as functions of the numbers handed in

\* the largest number handed to a ratio
MaxNumber == 7

RatioInit ==
    /\ NewGame
    /\ probe \in [op : {"numbers"}, a : 0..MaxNumber, b : 0..MaxNumber, result : {Rat(0, 1)}]

\* calculateServiceLevel(fulfilled = a, total = b)
ApplyServiceLevel ==
    /\ probe.op = "numbers"
    /\ probe' = [probe EXCEPT !.op = "calculateServiceLevel",
                              !.result = CalculateServiceLevel(probe.a, probe.b)]
    /\ UNCHANGED <<gameVars, lastRead, animVars>>

\* calculateFillRate(ordersFilled = a, totalOrders = b)
ApplyFillRate ==
    /\ probe.op = "numbers"
    /\ probe' = [probe EXCEPT !.op = "calculateFillRate",
                              !.result = CalculateFillRate(probe.a, probe.b)]
    /\ UNCHANGED <<gameVars, lastRead, animVars>>

\* calculateInventoryTurnover(avgInventory = a, totalDemand = b, periods = 1)
ApplyInventoryTurnover ==
    /\ probe.op = "numbers"
    /\ probe' = [probe EXCEPT !.op = "calculateInventoryTurnover",
                              !.result = CalculateInventoryTurnover(probe.a, probe.b, 1)]
    /\ UNCHANGED <<gameVars, lastRead, animVars>>

\* coefficientOfVariation of calculateBullwhipMetrics for the order history [a, b]
ApplyCoefficientOfVariation ==
    /\ probe.op = "numbers"
    /\ probe' = [probe EXCEPT !.op = "coefficientOfVariation",
                              !.result = RoleMetrics([r \in RoleIds |-> <<probe.a, probe.b>>],
                                                     roleOrder, 1).coefficientOfVariationSquared]
    /\ UNCHANGED <<gameVars, lastRead, animVars>>

RatioNext ==
    \/ ApplyServiceLevel
    \/ ApplyFillRate
    \/ ApplyInventoryTurnover
    \/ ApplyCoefficientOfVariation

RatioSpec == RatioInit /\ [][RatioNext]_vars

----------------------------------------------------------------------------
\* Order of updates and shipments within a round (specification Spec)

\* the roles other than the player's, in the order the forEach visits them
OthersInOrder(playerRoleId) ==
    SelectSeq(roleOrder, LAMBDA r : ~IsSkipped(r, playerRoleId))

\* C16 (as claimed): within a round the five entities are updated in the
\* fixed order retailer, distributor, wholesaler, manufacturer, supplier,
\* whichever role is externally driven; so an externally driven role is not
\* updated before the roles downstream of it.
C16_FixedUpdateOrder ==
    RoundsProcessed >= 1 => updateOrder = roleOrder

\* What the code does: the player's entity first, then the others in chain
\* order.
UpdateOrderAsImplemented ==
    RoundsProcessed >= 1 =>
        \E playerRoleId \in RoleIds :
            updateOrder = <<playerRoleId>> \o OthersInOrder(playerRoleId)

\* number of entries pushed onto a role's incomingShipments in the latest round
PushesThisRound(roleId) ==
    Cardinality({k \in 1..Len(shipTags[roleId]) : shipTags[roleId][k] = RoundsProcessed})

\* the role next upstream of a role that is not the supplier
UpstreamOf(roleId) == roleOrder[IndexOf(roleId) + 1]

\* the latest entry of a role's incomingShipments
LastShipment(roleId) ==
    entities[roleId].incomingShipments[Len(entities[roleId].incomingShipments)]

\* C17 (as claimed): in every round every non-retailer role, the externally
\* driven one included, pushes the quantity it fulfilled in that round onto
\* the incomingShipments of the entity next downstream: retailer,
\* distributor and wholesaler each gain exactly one incoming shipment per
\* round, the quantity their upstream neighbour fulfilled.
C17_EveryRoleShipsDownstream ==
    RoundsProcessed >= 1 =>
        \A r \in {"retailer", "distributor", "wholesaler"} :
            /\ PushesThisRound(r) = 1
            /\ LastShipment(r) = stepLog[UpstreamOf(r)].fulfilled

\* What the code does: an internally driven role ships what it fulfilled;
\* the player's role ships nothing.
ShipsDownstreamAsImplemented ==
    RoundsProcessed >= 1 =>
        \A r \in {"retailer", "distributor", "wholesaler"} :
            IF stepLog[UpstreamOf(r)].external
            THEN PushesThisRound(r) = 0
            ELSE /\ PushesThisRound(r) = 1
                 /\ LastShipment(r) = stepLog[UpstreamOf(r)].fulfilled

\* C18 (as claimed): in every round exactly one shipment is pushed onto the
\* manufacturer's incomingShipments, and its quantity is the order the
\* supplier processed in that round (orderToProcess), not the quantity the
\* supplier fulfilled.
C18_OneSupplierShipment ==
    RoundsProcessed >= 1 =>
        /\ PushesThisRound("manufacturer") = 1
        /\ LastShipment("manufacturer") = stepLog["supplier"].order

\* What the code does: an internally driven supplier pushes what it
\* fulfilled, and line 202 then pushes 0 in every round (the supplier's
\* incomingOrders is empty by then).
SupplierShipmentsAsImplemented ==
    RoundsProcessed >= 1 =>
        /\ PushesThisRound("manufacturer") = IF stepLog["supplier"].external THEN 1 ELSE 2
        /\ LastShipment("manufacturer") = 0
        /\ ~stepLog["supplier"].external =>
               entities["manufacturer"].incomingShipments[
                   Len(entities["manufacturer"].incomingShipments) - 1]
                       = stepLog["supplier"].fulfilled

----------------------------------------------------------------------------
\* getAIStrategy, as a function of role and round

\* the largest round number handed to getAIStrategy
MaxRound == 21

StrategyInit ==
    /\ NewGame
    /\ probe \in [op : {"role and round"}, roleId : RoleIds, round : 0..MaxRound,
                   result : {"none"}]

\* getAIStrategy(roleId, round)
ApplyGetAIStrategy ==
    /\ probe.op = "role and round"
    /\ probe' = [probe EXCEPT !.op = "getAIStrategy",
                              !.result = GetAIStrategy(probe.roleId, probe.round)]
    /\ UNCHANGED <<gameVars, lastRead, animVars>>

StrategyNext == ApplyGetAIStrategy

StrategySpec == StrategyInit /\ [][StrategyNext]_vars

\* C19: getAIStrategy(role, round) returns conservative for every role when
\* round < 5; for 5 <= round <= 11 reactive for the retailer, balanced for
\* distributor and wholesaler, conservative for the manufacturer and
\* aggressive for the supplier; and reactive for every role when round >= 12.
C19_StrategySchedule ==
    probe.op = "getAIStrategy" =>
        /\ probe.round < 5 => probe.result = "conservative"
        /\ (5 <= probe.round /\ probe.round <= 11) =>
               probe.result = [ retailer     |-> "reactive",
                                distributor  |-> "balanced",
                                wholesaler   |-> "balanced",
                                manufacturer |-> "conservative",
                                supplier     |-> "aggressive" ][probe.roleId]
        /\ probe.round >= 12 => probe.result = "reactive"

\* C19 witness: the strategy of the supplier in round 5, the first round of
\* the role table, has been asked for and is aggressive.
C19_Witness ==
    /\ probe.op = "getAIStrategy"
    /\ probe.roleId = "supplier"
    /\ probe.round = 5
    /\ probe.result = "aggressive"

----------------------------------------------------------------------------
\* calculateAIOrder, as a function of entity, strategy, order and draw

\* the largest currentOrder handed to calculateAIOrder
MaxCurrentOrder == 3

\* inventories on both sides of the thresholds 3, 5 and 20
Inventories == {2, 4, InitialInventory, 21}

\* order histories: none, one entry, a falling pair, more than three entries
RecentHistories == {<<>>, <<5>>, <<8, 2>>, <<1, 5, 9, 3>>}

CalcInit ==
    /\ NewGame
    /\ probe \in [ op           : {"order"},
                    inventory    : Inventories,
                    orderHistory : RecentHistories,
                    strategy     : Strategies \cup {"other"},
                    currentOrder : 0..MaxCurrentOrder,
                    s            : 0..(RandModulus - 1),
                    result       : {0} ]

\* the entity of a probe
ProbeEntity ==
    [NewEntity EXCEPT !.inventory = probe.inventory, !.orderHistory = probe.orderHistory]

\* calculateAIOrder(entity, strategy, currentOrder, round), the generator
\* being in state s
ApplyCalculateAIOrder ==
    /\ probe.op = "order"
    /\ probe' = [probe EXCEPT !.op = "calculateAIOrder",
                              !.result = CalculateAIOrder(ProbeEntity, probe.strategy,
                                                          probe.currentOrder, probe.s).order]
    /\ UNCHANGED <<gameVars, lastRead, animVars>>

CalcNext == ApplyCalculateAIOrder

CalcSpec == CalcInit /\ [][CalcNext]_vars

\* the noise values the draws of Math.random() can produce
NoiseValues == {OrderNoise(r) : r \in 0..(RandModulus - 1)}

\* the base quantity of a policy in the claim's words
ClaimedBase ==
    LET recent == SliceLast(probe.orderHistory, 3)
        n      == Len(recent)
        c      == probe.currentOrder
        \* avgRecentOrder + 1.5 * trend, as a fraction over 2 * n
        num    == 2 * SumSeq(recent) + 3 * n * (recent[n] - recent[1])
    IN  CASE probe.strategy = "balanced"   -> RoundDiv(12 * c, 10)
          [] probe.strategy = "aggressive" ->
                 RoundDiv(15 * c, 10) + (IF probe.inventory < 5 THEN 5 ELSE 0)
          [] probe.strategy = "reactive"   ->
                 IF n = 0 THEN c
                 ELSE IF n = 1 THEN recent[1]
                 ELSE RoundDiv(num, 2 * n)
          [] OTHER                         -> c

\* clamp at 0, then floor(0.7 * q) if inventory > 20, ceil(1.3 * q) if
\* inventory < 3
ClaimedOrder(noise) ==
    LET q == Max(0, ClaimedBase + noise)
    IN  IF probe.inventory > 20 THEN (7 * q) \div 10
        ELSE IF probe.inventory < 3 THEN CeilDiv(13 * q, 10)
        ELSE q

\* C20 (as claimed): calculateAIOrder returns a non-negative integer for
\* every policy: the policy's base quantity plus an integer noise, clamped
\* at 0, then floor(0.7 * q) if inventory > 20 or ceil(1.3 * q) if
\* inventory < 3; and the possible values of the noise are exactly
\* -2, -1, 0, 1 and 2.
C20_AIOrderAsClaimed ==
    /\ probe.op = "calculateAIOrder" =>
           /\ probe.result \in Nat
           /\ \E noise \in -2..2 : probe.result = ClaimedOrder(noise)
    /\ NoiseValues = -2..2

\* What the code does: everything the claim says, except that
\* Math.floor((Math.random() - 0.5) * 4) is never 2: the noise is one of
\* -2, -1, 0, 1.
AIOrderAsImplemented ==
    /\ probe.op = "calculateAIOrder" =>
           /\ probe.result \in Nat
           /\ probe.result = ClaimedOrder(OrderNoise(NextRand(probe.s)))
    /\ NoiseValues = -2..1

----------------------------------------------------------------------------
\* Responsibility scores over the engine's entities (specification Spec)

\* the stockout of every round an entity has played: the order it processed
\* less what it had in stock, the inventory before round r being the entry
\* of inventoryHistory that closes round r - 1 (the seed for round 1)
StockoutHistory(entity) ==
    [r \in 1..Len(entity.orderHistory) |->
        Max(0, entity.orderHistory[r] - entity.inventoryHistory[r])]

\* the score in the claim's words: over every round r with a stockout of
\* the role and every downstream role d at chain distance k with a stockout
\* in round r + 2k, the sum of min(stockout_r, stockout_d[r + 2k])
LaggedScore(roleId) ==
    LET own == StockoutHistory(entities[roleId])
        share(r, i) ==
            LET theirs == StockoutHistory(entities[roleOrder[i]])
                at     == r + 2 * (IndexOf(roleId) - i)
            IN  IF own[r] > 0 /\ at <= Len(theirs) /\ theirs[at] > 0
                THEN Min(own[r], theirs[at]) ELSE 0
    IN  SumSeq([r \in 1..Len(own) |->
                   SumSeq([i \in 1..(IndexOf(roleId) - 1) |-> share(r, i)])])

\* C21 (as claimed): the responsibility score of a role over the engine's
\* entities, the one in getFinalResults' rankings and the one of
\* ScoreCalculator.calculateResponsibilityScore alike, is the sum over every
\* round r in which the role had a stockout and every downstream role d at
\* chain distance k >= 1 with a stockout in round r + 2k of
\* min(stockout_r, stockout_d[r + 2k]); the retailer always scores 0.
C21_ResponsibilityScoreLagged ==
    \A roleId \in RoleIds :
        /\ EngineResponsibilityScore(entities, roleId) = LaggedScore(roleId)
        /\ ResponsibilityScore(roleId, [r \in RoleIds |-> <<>>], roleOrder) = LaggedScore(roleId)
        /\ roleId = "retailer" => EngineResponsibilityScore(entities, roleId) = 0

\* What the code does: the engine's score pairs the totals of unfulfilled
\* demand, whatever the rounds they arose in; ScoreCalculator reads a
\* stockoutHistory the engine's entities do not have and scores 0; handed
\* the per-round stockouts it computes the lagged sum; the retailer scores 0.
ResponsibilityScoreAsImplemented ==
    \A roleId \in RoleIds :
        /\ EngineResponsibilityScore(entities, roleId) =
               SumSeq([i \in 1..(IndexOf(roleId) - 1) |->
                          IF entities[roleId].unfulfilledDemand > 0
                             /\ entities[roleOrder[i]].unfulfilledDemand > 0
                          THEN Min(entities[roleId].unfulfilledDemand,
                                   entities[roleOrder[i]].unfulfilledDemand)
                          ELSE 0])
        /\ ResponsibilityScore(roleId, [r \in RoleIds |-> <<>>], roleOrder) = 0
        /\ ResponsibilityScore(roleId, [r \in RoleIds |-> StockoutHistory(entities[r])],
                               roleOrder) = LaggedScore(roleId)
        /\ SumSeq(StockoutHistory(entities[roleId])) = entities[roleId].unfulfilledDemand
        /\ roleId = "retailer" => EngineResponsibilityScore(entities, roleId) = 0

----------------------------------------------------------------------------
\* PlayerLogic (player-logic.js, src/unnamed/part_001), as functions of the
\* state handed in: [inventory, incomingOrder, orderHistory,
\* incomingShipments].  Averages, slopes and variances are exact fractions.

STRATEGIES == {"lean", "balanced", "aggressive", "reactive", "predictive"}

\* mutant: the order is not clamped at 0
LeanStrategyUnclamped(state) ==
    state.incomingOrder - (state.inventory + SumSeq(state.incomingShipments))

\* PlayerLogic.leanStrategy(state)
LeanStrategy(state) ==
    LET expectedInventory == state.inventory + SumSeq(state.incomingShipments)
    IN  Max(0, state.incomingOrder - expectedInventory)

\* PlayerLogic.balancedStrategy(state), TARGET_BUFFER = 5
BalancedStrategy(state) ==
    LET expectedInventory == state.inventory + SumSeq(state.incomingShipments)
    IN  Max(0, state.incomingOrder + 5 - expectedInventory)

\* PlayerLogic.aggressiveStrategy(state), TARGET_BUFFER = 15
AggressiveStrategy(state) ==
    LET recent == SliceLast(state.orderHistory, 3)
        n      == Len(recent)
        \* Math.max(incomingOrder, recentAvg) = num / den
        num    == IF n > 0 THEN Max(state.incomingOrder * n, SumSeq(recent))
                  ELSE state.incomingOrder
        den    == IF n > 0 THEN n ELSE 1
    IN  RoundDiv(Max(0, num + (15 - state.inventory) * den), den)

\* PlayerLogic.reactiveStrategy(state)
ReactiveStrategy(state) ==
    LET recentOrders == SliceLast(state.orderHistory, 3)
        n            == Len(recentOrders)
        trend        == recentOrders[n] - recentOrders[1]
    IN  IF Len(state.orderHistory) < 2
        THEN Max(0, state.incomingOrder - state.inventory)
        ELSE RoundDiv(Max(0, SumSeq(recentOrders) + (trend * 2 - state.inventory) * n), n)

\* PlayerLogic.calculateTrend(data): the slope of the regression line over
\* x = 0..n-1, as a fraction
CalculateTrend(data) ==
    LET n     == Len(data)
        sumX  == (n * (n - 1)) \div 2
        sumY  == SumSeq(data)
        sumXY == SumSeq([k \in 1..n |-> (k - 1) * data[k]])
        sumX2 == (n * (n - 1) * (2 * n - 1)) \div 6
    IN  IF n < 2 THEN Rat(0, 1)
        ELSE Rat(n * sumXY - sumX * sumY, n * sumX2 - sumX * sumX)

\* greatest common divisor of m >= 0 and n >= 0
RECURSIVE GCD(_, _)
GCD(m, n) == IF n = 0 THEN m ELSE GCD(n, m % n)

\* a fraction with den > 0 in lowest terms
Lowest(r) ==
    LET g == GCD(IF r.num < 0 THEN -r.num ELSE r.num, r.den)
    IN  IF g = 0 THEN r ELSE Rat(r.num \div g, r.den \div g)

\* the largest entry of a non-empty array
MaxOf(seq) == CHOOSE v \in {seq[k] : k \in 1..Len(seq)} : \A k \in 1..Len(seq) : seq[k] <= v

\* Math.round(Math.max(0, a + 1.5 * Math.sqrt(v))) for fractions a and
\* v >= 0, the result known to be at most limit: the largest m with
\* m - 1/2 - a <= 1.5 * sqrt(v), decided on the squares
RoundWithRoot(a, v, limit) ==
    LET fits(m) ==
            LET tN == 2 * m * a.den - a.den - 2 * a.num
                tD == 2 * a.den
            IN  tN <= 0 \/ 4 * tN * tN * v.den <= 9 * v.num * tD * tD
        fitting == {m \in 1..limit : fits(m)}
    IN  IF fitting = {} THEN 0 ELSE CHOOSE m \in fitting : \A j \in fitting : j <= m

\* PlayerLogic.predictiveStrategy(state)
PredictiveStrategy(state) ==
    LET windowSize   == Min(5, Len(state.orderHistory))
        recentOrders == SliceLast(state.orderHistory, windowSize)
        trend        == CalculateTrend(recentOrders)
        \* ma + trend * 2 - inventory
        a            == Rat((SumSeq(recentOrders) - state.inventory * windowSize) * trend.den
                                + 2 * trend.num * windowSize,
                            windowSize * trend.den)
    IN  IF Len(state.orderHistory) < 3 THEN BalancedStrategy(state)
        ELSE RoundWithRoot(Lowest(a), Lowest(Variance(recentOrders)),
                           4 * MaxOf(recentOrders) + 1)

\* PlayerLogic.calculateOptimalOrder(currentState, strategy)
CalculateOptimalOrder(currentState, strategy) ==
    CASE strategy = "lean"       -> LeanStrategy(currentState)
      [] strategy = "balanced"   -> BalancedStrategy(currentState)
      [] strategy = "aggressive" -> AggressiveStrategy(currentState)
      [] strategy = "reactive"   -> ReactiveStrategy(currentState)
      [] strategy = "predictive" -> PredictiveStrategy(currentState)
      [] OTHER                   -> currentState.incomingOrder

\* inventories of a probe
Stocks == {0, 3, InitialInventory, 30}

\* order histories of a probe: the short ones, and some of 3 and more entries
PlayerHistories == Histories \cup {<<4, 8, 0>>, <<8, 8, 8>>, <<1, 2, 4, 7>>, <<0, 4, 8, 8, 4, 0>>}

PlayerInit ==
    /\ NewGame
    /\ probe \in [ op                : {"state"},
                    strategy          : STRATEGIES,
                    inventory         : Stocks,
                    incomingOrder     : OrderValues,
                    orderHistory      : PlayerHistories,
                    incomingShipments : {<<>>, <<4>>, <<0, 8>>},
                    result            : {0} ]

\* PlayerLogic.calculateOptimalOrder(currentState, strategy)
ApplyCalculateOptimalOrder ==
    /\ probe.op = "state"
    /\ probe' = [probe EXCEPT !.op = "calculateOptimalOrder",
                              !.result = CalculateOptimalOrder(probe, probe.strategy)]
    /\ UNCHANGED <<gameVars, lastRead, animVars>>

PlayerNext == ApplyCalculateOptimalOrder

PlayerSpec == PlayerInit /\ [][PlayerNext]_vars

\* C22: calculateOptimalOrder returns a non-negative integer for every
\* named strategy and every state of non-negative integers; lean returns
\* max(0, demand - (inventory + sum(incomingShipments))), balanced returns
\* max(0, demand + 5 - (inventory + sum(incomingShipments))), and predictive
\* with fewer than 3 orderHistory entries returns the balanced result.
C22_OptimalOrder ==
    probe.op = "calculateOptimalOrder" =>
        LET expected == probe.inventory + SumSeq(probe.incomingShipments)
            lean     == IF probe.incomingOrder > expected
                        THEN probe.incomingOrder - expected ELSE 0
            balanced == IF probe.incomingOrder + 5 > expected
                        THEN probe.incomingOrder + 5 - expected ELSE 0
        IN  /\ probe.result \in Nat
            /\ probe.strategy = "lean" => probe.result = lean
            /\ probe.strategy = "balanced" => probe.result = balanced
            /\ (probe.strategy = "predictive" /\ Len(probe.orderHistory) < 3)
                   => probe.result = balanced

\* C22 witness: a lean order has been computed for a demand below the
\* stock in hand and on the way, and it is 0.
C22_Witness ==
    /\ probe.op = "calculateOptimalOrder"
    /\ probe.strategy = "lean"
    /\ probe.incomingOrder < probe.inventory + SumSeq(probe.incomingShipments)
    /\ probe.incomingShipments # <<>>
    /\ probe.result = 0

----------------------------------------------------------------------------
\* Queues and accumulators at the end of a round (specification Spec)

\* C23 (as claimed): at the end of every round every entity's
\* incomingShipments holds at most 2 entries, the manufacturer's included:
\* the pipeline does not grow with the number of rounds played.
C23_ShipmentPipelineBounded ==
    \A r \in RoleIds : Len(entities[r].incomingShipments) <= 2

\* What the code does: retailer, distributor and wholesaler, pushed at most
\* once and shifted once per round, hold at most 2 entries; the manufacturer
\* holds up to one entry more per round played; nothing is ever pushed to
\* the supplier.
ShipmentPipelineAsImplemented ==
    /\ \A r \in {"retailer", "distributor", "wholesaler"} :
           Len(entities[r].incomingShipments) <= 2
    /\ Len(entities["manufacturer"].incomingShipments) <= RoundsProcessed + 1
    /\ entities["supplier"].incomingShipments = <<>>

\* the manufacturer's pipeline does grow: three rounds leave four entries
ManufacturerPipelineGrows ==
    /\ RoundsProcessed = 3
    /\ Len(entities["manufacturer"].incomingShipments) = 4

\* C24: in every reachable state and for every entity, stockoutCosts is
\* 1.0 * unfulfilledDemand and holdingCosts is 0.5 * the sum of the
\* inventoryHistory entries after the initial seed (costs in half units:
\* twice the unfulfilled demand, and the sum itself).
C24_CostsMatchHistory ==
    \A r \in RoleIds :
        /\ entities[r].stockoutCosts = 2 * entities[r].unfulfilledDemand
        /\ entities[r].holdingCosts = SumSeq(Tail(entities[r].inventoryHistory))

\* C24 witness: after three rounds an entity has run short and still holds
\* stock, so both accumulators are positive.
C24_Witness ==
    /\ RoundsProcessed = 3
    /\ \E r \in RoleIds :
           /\ entities[r].unfulfilledDemand > 0
           /\ entities[r].stockoutCosts > 0
           /\ entities[r].holdingCosts > 0
           /\ Len(entities[r].inventoryHistory) = 4

\* C25: after every completed processPlayerOrder call every entity's
\* incomingOrders is empty (an order appended in a round is popped in the
\* same round), so getRoundState between rounds reports an empty
\* pendingOrders for every role.
C25_IncomingOrdersEmpty ==
    /\ \A r \in RoleIds : entities[r].incomingOrders = <<>>
    /\ lastRead.op = "getRoundState" => lastRead.result.pendingOrders = <<>>

\* C25 witness: getRoundState has been called after a round in which the
\* role asked about processed a positive order, and pendingOrders is empty.
C25_Witness ==
    /\ lastRead.op = "getRoundState"
    /\ RoundsProcessed >= 2
    /\ stepLog[lastRead.arg].order > 0
    /\ ~stepLog[lastRead.arg].external
    /\ lastRead.result.pendingOrders = <<>>

----------------------------------------------------------------------------
\* AnimationController (src/unnamed/part_001, lines 291-446)
\*
\* Times are in milliseconds.  An animation object is a record: obj is its
\* identity (the ordinal of its creation), delay is its delay field, and
\* progress is kept as the NUMERATOR over duration: the program's progress
\* p is progress / duration here, so p >= 1 is progress >= duration.  The
\* sums of deltaTime / duration are taken exactly; the rounding of doubles
\* is not modelled.  Positions, colours and quantities play no part in
\* update and are left out.

\* how many animations are created in one run
MaxAnimations == 3

\* duration of the animations made by createShipmentAnimation,
\* createOrderAnimation and createTruckAnimation
ShipmentDuration == 2000
OrderDuration == 1000
TruckDuration == 2500

\* the delay argument of createShipmentAnimation (default 0)
Delays == {0, 1000}

\* the deltaTime argument of update: positive
DeltaTimes == {500, 1000}

\* a delay field: a number, absent (undefined), or NaN
Number(n) == [kind |-> "number", value |-> n]
NoDelay == [kind |-> "undefined", value |-> 0]
NaN == [kind |-> "NaN", value |-> 0]

\* anim.delay <= 0: false when delay is undefined or NaN
DelayElapsed(delay) == delay.kind = "number" /\ delay.value <= 0

\* anim.delay -= deltaTime: undefined - n and NaN - n are NaN
DelayMinus(delay, deltaTime) ==
    IF delay.kind = "number" THEN Number(delay.value - deltaTime) ELSE NaN

\* createShipmentAnimation(fromRole, toRole, quantity, delay = 0)
CreateShipmentAnimation(obj, delay) ==
    [obj |-> obj, type |-> "shipment", progress |-> 0,
     duration |-> ShipmentDuration, delay |-> Number(delay)]

\* createOrderAnimation(fromRole, toRole, quantity)
CreateOrderAnimation(obj) ==
    [obj |-> obj, type |-> "order", progress |-> 0,
     duration |-> OrderDuration, delay |-> Number(0)]

\* createTruckAnimation(fromX, fromY, toX, toY, type): the object has no
\* delay field (createShipAnimation and createPackageAnimation make the
\* same shape, with durations 3000 and 2000)
CreateTruckAnimation(obj) ==
    [obj |-> obj, type |-> "truck", progress |-> 0,
     duration |-> TruckDuration, delay |-> NoDelay]

\* addAnimation(animation)
AddAnimation(animation) ==
    /\ Len(addedLog) < MaxAnimations
    /\ controller' = [controller EXCEPT !.animationQueue = Append(@, animation)]
    /\ addedLog' = Append(addedLog, animation)
    /\ UNCHANGED <<gameVars, lastRead, probe>>

\* the identity of the next object created
NextObj == Len(addedLog) + 1

AddShipmentAnimation ==
    \E delay \in Delays : AddAnimation(CreateShipmentAnimation(NextObj, delay))

AddOrderAnimation == AddAnimation(CreateOrderAnimation(NextObj))

AddTruckAnimation == AddAnimation(CreateTruckAnimation(NextObj))

\* update(deltaTime): the queue's filter pushes every animation whose delay
\* has elapsed onto activeAnimations and ages the others; the second filter
\* then advances every active animation, those just pushed included, and
\* drops the completed ones
UpdateBy(deltaTime) ==
    \E moved \in {SelectSeq(controller.animationQueue,
                            LAMBDA a : DelayElapsed(a.delay))},
       waiting \in {SelectSeq(controller.animationQueue,
                              LAMBDA a : ~DelayElapsed(a.delay))} :
      \E pushed \in {controller.activeAnimations \o moved} :
      \E advanced \in {[i \in DOMAIN pushed |->
                           [pushed[i] EXCEPT !.progress = @ + deltaTime]]} :
        /\ controller' =
             [animationQueue |->
                  [i \in DOMAIN waiting |->
                      [waiting[i] EXCEPT !.delay = DelayMinus(@, deltaTime)]],
              activeAnimations |->
                  SelectSeq(advanced, LAMBDA a : a.progress < a.duration)]
        /\ UNCHANGED <<gameVars, lastRead, probe, addedLog>>

Update == \E deltaTime \in DeltaTimes : UpdateBy(deltaTime)

AnimNext ==
    \/ AddShipmentAnimation
    \/ AddOrderAnimation
    \/ AddTruckAnimation
    \/ Update

\* update is called again and again (once per frame)
AnimSpec == Init /\ [][AnimNext]_vars /\ WF_vars(Update)

Objects == 1..MaxAnimations

Added(obj) == obj <= Len(addedLog)

InQueue(obj) ==
    \E i \in DOMAIN controller.animationQueue :
        controller.animationQueue[i].obj = obj

InActive(obj) ==
    \E i \in DOMAIN controller.activeAnimations :
        controller.activeAnimations[i].obj = obj

\* added, and in neither list any more: update has taken it off
\* animationQueue, pushed it onto activeAnimations and dropped it from there
Removed(obj) == Added(obj) /\ ~InQueue(obj) /\ ~InActive(obj)

\* the object was created with a numeric delay field
HasDelay(obj) == Added(obj) /\ addedLog[obj].delay.kind = "number"

\* C26 (as claimed): under repeated update calls with deltaTime > 0, every
\* animation added with addAnimation eventually leaves animationQueue for
\* activeAnimations and is eventually removed from activeAnimations; at no
\* time is an animation in both lists, and a removed animation never
\* reappears.
C26_AnimationsComplete ==
    /\ \A obj \in Objects : Added(obj) ~> ~InQueue(obj)
    /\ \A obj \in Objects : Added(obj) ~> Removed(obj)
    /\ [](\A obj \in Objects : ~(InQueue(obj) /\ InActive(obj)))
    /\ [][\A obj \in Objects : Removed(obj) => Removed(obj)']_vars

\* What the code does, liveness: the animations that have a numeric delay
\* field leave the queue and complete.
AnimationsWithDelayComplete ==
    /\ \A obj \in Objects : HasDelay(obj) ~> ~InQueue(obj)
    /\ \A obj \in Objects : HasDelay(obj) ~> Removed(obj)

\* What the code does, safety: no animation is in both lists, each is in a
\* list at most once, and one without a delay field never leaves the queue.
AnimationListsDisjoint ==
    /\ \A obj \in Objects : ~(InQueue(obj) /\ InActive(obj))
    /\ \A obj \in Objects :
           Added(obj) /\ ~HasDelay(obj) => InQueue(obj) /\ ~InActive(obj)
    /\ \A i, j \in DOMAIN controller.animationQueue :
           controller.animationQueue[i].obj = controller.animationQueue[j].obj
               => i = j
    /\ \A i, j \in DOMAIN controller.activeAnimations :
           controller.activeAnimations[i].obj = controller.activeAnimations[j].obj
               => i = j

\* a removed animation stays removed
RemovedStaysRemoved ==
    [][\A obj \in Objects : Removed(obj) => Removed(obj)']_vars

\* a truck animation has sat through updates: its delay is NaN and it is
\* still queued, while an animation added after it has completed
TruckAnimationStuck ==
    \E i \in DOMAIN controller.animationQueue :
        /\ controller.animationQueue[i].type = "truck"
        /\ controller.animationQueue[i].delay = NaN
        /\ \E obj \in Objects :
               obj > controller.animationQueue[i].obj /\ Removed(obj)
====
